---- MODULE Spec2Model ----
(***************************************************************************)
(* Model of Graph_TimeSeries_Forecasting/spektral_utilities.py.            *)
(*                                                                         *)
(* Two families of routines are modelled:                                  *)
(*   - the numpy/scipy family (degree_power, normalized_adjacency,         *)
(*     localpooling_filter), under the specification Spec;                 *)
(*   - the tensor family (transpose, reshape, autodetect_mode, filter_dot, *)
(*     dot, mixed_mode_dot), under the specification SpecDot.              *)
(*                                                                         *)
(* Numbers of the numpy family are exact: a finite value is                *)
(* (n / d) * sqrt(r) with r squarefree, and d = 0 stands for +infinity.    *)
(* Arrays carry their element type ("int" or "float") and their storage    *)
(* class (dense or sparse), because the code's behaviour depends on both.  *)
(***************************************************************************)
EXTENDS Integers, Sequences, FiniteSets, TLC

VARIABLES
    pc,         \* position of the caller: "idle", inside localpooling_filter, "done"
    op,         \* the routine that was called ("" while idle)
    objs,       \* the heap of array objects: a sequence indexed by reference
    A,          \* reference of the caller's adjacency array
    A0,         \* the caller's saved copy of A, taken before any call
    symmetric,  \* argument of normalized_adjacency / localpooling_filter
    k,          \* argument of degree_power
    fltr,       \* local of localpooling_filter: reference (0 while unset)
    I,          \* local of localpooling_filter: the identity array
    i,          \* local of localpooling_filter: loop index (1-based)
    A_tilde,    \* local of localpooling_filter: the array with self-loops
    res,        \* what the finished call returned (or raised)
    ta,         \* tensor family: left operand
    tb,         \* tensor family: right operand
    tres        \* tensor family: what the finished call returned (or raised)

vars == <<pc, op, objs, A, A0, symmetric, k, fltr, I, i, A_tilde, res, ta, tb, tres>>

(***************************************************************************)
(* Bounds of the model.                                                    *)
(***************************************************************************)
MaxN == 3        \* adjacency matrices are N x N, N in 1..MaxN
MaxVal == 2      \* entries of an input array are 0..MaxVal
MaxSeed == 80    \* an input array's entries are the digits of a seed in 0..MaxSeed
MaxBatch == 2    \* a rank-3 input holds 1..MaxBatch slices
MaxStride == 3   \* slice b of a batch has seed  seed + (b-1)*stride
MaxHalf == 2     \* exponents of degree_power are h/2, h in -MaxHalf..MaxHalf
MaxRank == 4     \* tensor operands have rank 1..MaxRank
MaxDim == 2      \* every extent of a tensor operand is in 1..MaxDim
MaxTSeed == 1    \* tensor data are generated from a seed in 0..MaxTSeed

Unset == "unset"

(***************************************************************************)
(* Exact arithmetic.                                                       *)
(***************************************************************************)
Abs(x) == IF x < 0 THEN -x ELSE x

RECURSIVE Gcd(_, _)
Gcd(x, y) == IF y = 0 THEN x ELSE Gcd(y, x % y)

RECURSIVE IPow(_, _)
IPow(b, e) == IF e = 0 THEN 1 ELSE b * IPow(b, e - 1)

\* The largest s with s*s dividing x (x >= 1).
SquarePart(x) ==
    CHOOSE s \in 1..x :
        /\ x % (s * s) = 0
        /\ \A t \in (s + 1)..x : x % (t * t) # 0

\* The canonical form of (n / d) * sqrt(r), for d > 0 and r > 0.
Norm(n, d, r) ==
    IF n = 0 THEN [n |-> 0, d |-> 1, r |-> 1]
    ELSE LET s == SquarePart(r)
             m == n * s
             g == Gcd(Abs(m), d)
         IN  [n |-> m \div g, d |-> d \div g, r |-> r \div (s * s)]

R(x) == [n |-> x, d |-> 1, r |-> 1]
Zero == R(0)
One == R(1)
Inf == [n |-> 1, d |-> 0, r |-> 1]
NegInf == [n |-> -1, d |-> 0, r |-> 1]
NaN == [n |-> 0, d |-> 0, r |-> 1]

isnan(x) == x.d = 0 /\ x.n = 0
isinf(x) == x.d = 0 /\ x.n # 0
isfinite(x) == x.d # 0

\* IEEE product: inf * 0 and anything with NaN are NaN.
RMul(x, y) ==
    IF isnan(x) \/ isnan(y) THEN NaN
    ELSE IF isinf(x) \/ isinf(y)
         THEN (IF x.n = 0 \/ y.n = 0 THEN NaN
               ELSE IF (x.n > 0) = (y.n > 0) THEN Inf ELSE NegInf)
         ELSE Norm(x.n * y.n, x.d * y.d, x.r * y.r)

\* IEEE sum. Finite sums arise only between values with the same radical,
\* or with zero.
RAdd(x, y) ==
    IF isnan(x) \/ isnan(y) THEN NaN
    ELSE IF isinf(x) /\ isinf(y) THEN (IF x.n = y.n THEN x ELSE NaN)
    ELSE IF isinf(x) THEN x
    ELSE IF isinf(y) THEN y
    ELSE CASE x.n = 0 -> y
           [] x.n # 0 /\ y.n = 0 -> x
           [] x.n # 0 /\ y.n # 0 /\ x.r = y.r ->
                 Norm(x.n * y.d + y.n * x.d, x.d * y.d, x.r)

\* Conversion of a finite value to an integer element: truncation toward zero.
\* (No other value reaches a conversion: degree_power clamps the infinities
\* and the inputs have nonnegative entries.)
Trunc(x) ==
    LET m == Abs(x.n)
        t == CHOOSE c \in 0..(m * x.r) :
                /\ c * c * x.d * x.d <= m * m * x.r
                /\ (c + 1) * (c + 1) * x.d * x.d > m * m * x.r
    IN  R(IF x.n < 0 THEN -t ELSE t)

\* Assignment of a value into an array of element type dt.
Cast(x, dt) == IF dt = "int" THEN Trunc(x) ELSE x

(***************************************************************************)
(* numpy / scipy primitives on rank-2 arrays.                              *)
(* An array is [dtype, sparse, ndim, shape, sorted, val]; a rank-2 val is  *)
(* a function row -> column -> value, a rank-3 val is slice -> rank-2 val. *)
(***************************************************************************)
Mat(dt, sp, n, m, v) ==
    [dtype |-> dt, sparse |-> sp, ndim |-> 2, shape |-> <<n, m>>,
     sorted |-> TRUE, val |-> v]

issparse(X) == X.sparse

RECURSIVE SumTo(_, _)
SumTo(f, m) == IF m = 0 THEN Zero ELSE RAdd(SumTo(f, m - 1), f[m])

\* A.sum(1), flattened: the vector of row sums.
row_sums(X) ==
    [r \in 1..X.shape[1] |-> SumTo(X.val[r], X.shape[2])]

\* An exponent is k = half / 2; isint tells a Python int from a float.
Exponent(h, isint) == [half |-> h, isint |-> isint]

\* base ** (half/2) for an integer base >= 0 (a row sum of nonnegative
\* entries), in floating arithmetic.
FloatPow(b, h) ==
    IF b = 0 THEN (IF h < 0 THEN Inf ELSE IF h = 0 THEN One ELSE Zero)
    ELSE IF h % 2 = 0
         THEN (IF h >= 0 THEN R(IPow(b, h \div 2))
                         ELSE Norm(1, IPow(b, (-h) \div 2), 1))
         ELSE (IF h >= 0 THEN Norm(IPow(b, (h - 1) \div 2), 1, b)
                         ELSE Norm(1, IPow(b, (1 - h) \div 2), b))

\* np.power(x, k) on a vector of integer-valued entries of element type dt.
\* An integer array raised to a negative Python int raises ValueError.
np_power(x, dt, e) ==
    IF dt = "int" /\ e.isint
    THEN IF e.half < 0
         THEN [raised |-> TRUE, exc |-> "ValueError"]
         ELSE [raised |-> FALSE, dtype |-> "int",
               val |-> [r \in DOMAIN x |-> R(IPow(x[r].n, e.half \div 2))]]
    ELSE [raised |-> FALSE, dtype |-> "float",
          val |-> [r \in DOMAIN x |-> FloatPow(x[r].n, e.half)]]

\* np.diag(v) / sp.diags(v)
diag(v, dt, sp) ==
    LET n == Len(v)
    IN  Mat(dt, sp, n, n,
            [r \in 1..n |-> [c \in 1..n |-> IF r = c THEN v[r] ELSE Zero]])

\* (faulty variant of eye, for sensitivity runs: an all-zero matrix)
eye_zeros(n, dt, sp) == diag([r \in 1..n |-> Zero], dt, sp)

\* np.eye(n, dtype) / sp.eye(n, dtype)
eye(n, dt, sp) == diag([r \in 1..n |-> One], dt, sp)

ResultType(X, Y) ==
    IF X.dtype = "float" \/ Y.dtype = "float" THEN "float" ELSE "int"

\* (faulty variant of add, for sensitivity runs: the second term is dropped)
add_none(X, Y) == X

\* X + Y, elementwise, of two rank-2 arrays of one shape
add(X, Y) ==
    Mat(ResultType(X, Y), X.sparse /\ Y.sparse, X.shape[1], X.shape[2],
        [r \in 1..X.shape[1] |->
            [c \in 1..X.shape[2] |-> RAdd(X.val[r][c], Y.val[r][c])]])

\* X.dot(Y), the matrix product of two rank-2 arrays
matdot(X, Y) ==
    LET sp == X.sparse /\ Y.sparse
        m  == [dtype |-> ResultType(X, Y), sparse |-> sp, ndim |-> 2,
               shape |-> <<X.shape[1], Y.shape[2]>>, sorted |-> ~sp,
               val |-> [r \in 1..X.shape[1] |->
                          [c \in 1..Y.shape[2] |->
                              SumTo([t \in 1..X.shape[2] |->
                                        RMul(X.val[r][t], Y.val[t][c])],
                                    X.shape[2])]]]
    IN  m

(***************************************************************************)
(* degree_power, normalized_adjacency                                      *)
(***************************************************************************)
\* The vector np.power(A.sum(1), k) before the infinity clamp.
raw_degrees(X, e) == np_power(row_sums(X), X.dtype, e)

\* (faulty variant of clamp, for sensitivity runs: infinities are kept)
clamp_none(v) == v

\* degrees[np.isinf(degrees)] = 0.
clamp(v) == [r \in DOMAIN v |-> IF isinf(v[r]) THEN Zero ELSE v[r]]

degree_power(X, e) ==
    LET p == raw_degrees(X, e)
    IN  IF p.raised THEN p
        ELSE [raised |-> FALSE,
              val |-> diag(clamp(p.val), p.dtype, issparse(X))]

\* (faulty variant of normalized_adjacency, for sensitivity runs: the symmetric branch forgets the right
\* factor)
normalized_adjacency_left_only(X, sym) ==
    IF sym
    THEN matdot(degree_power(X, Exponent(-1, FALSE)).val, X)
    ELSE matdot(degree_power(X, Exponent(-2, FALSE)).val, X)

normalized_adjacency(X, sym) ==
    IF sym
    THEN LET normalized_D == degree_power(X, Exponent(-1, FALSE)).val
         IN  matdot(matdot(normalized_D, X), normalized_D)
    ELSE LET normalized_D == degree_power(X, Exponent(-2, FALSE)).val
         IN  matdot(normalized_D, X)

(***************************************************************************)
(* Inputs of the numpy family.                                             *)
(***************************************************************************)
Base == MaxVal + 1

\* The number of digits of MaxSeed in base Base.
Period ==
    CHOOSE L \in 1..(MaxSeed + 1) :
        IPow(Base, L) > MaxSeed /\ IPow(Base, L - 1) <= MaxSeed

\* Entry (r, c) of the n x n matrix of a seed: the seed's digits, laid out
\* row-major and repeated with period Period.
Digit(seed, n, r, c) ==
    (seed \div IPow(Base, ((r - 1) * n + (c - 1)) % Period)) % Base

SeedVal(seed, n) ==
    [r \in 1..n |-> [c \in 1..n |-> R(Digit(seed, n, r, c))]]

InputMatrix(dt, sp, n, seed) == Mat(dt, sp, n, n, SeedVal(seed, n))

InputBatch(dt, nb, n, seed, stride) ==
    [dtype |-> dt, sparse |-> FALSE, ndim |-> 3, shape |-> <<nb, n, n>>,
     sorted |-> TRUE,
     val |-> [b \in 1..nb |->
                SeedVal((seed + (b - 1) * stride) % (MaxSeed + 1), n)]]

\* scipy's sparse matrices have rank 2 only: a rank-3 input is dense.
Inputs ==
    {InputMatrix(dt, sp, n, seed) :
        dt \in {"int", "float"}, sp \in BOOLEAN, n \in 1..MaxN,
        seed \in 0..MaxSeed}
    \cup
    {InputBatch(dt, nb, n, seed, stride) :
        dt \in {"int", "float"}, nb \in 1..MaxBatch, n \in 1..MaxN,
        seed \in 0..MaxSeed, stride \in 0..MaxStride}

Exponents ==
    {Exponent(h, isint) : h \in (-MaxHalf)..MaxHalf, isint \in BOOLEAN}
    \ {Exponent(h, TRUE) : h \in {x \in (-MaxHalf)..MaxHalf : x % 2 # 0}}

(***************************************************************************)
(* localpooling_filter, step by step.                                      *)
(***************************************************************************)
\* (faulty variant of copy, for sensitivity runs: the same object is handed back)
copy_alias(heap, ref) == [heap |-> heap, ref |-> ref]

\* A.copy(): a fresh object holding the entries of heap[ref].
copy(heap, ref) == [heap |-> Append(heap, heap[ref]), ref |-> Len(heap) + 1]

\* A[b] of a rank-3 array, read as a rank-2 array.
slice(X, b) == Mat(X.dtype, X.sparse, X.shape[2], X.shape[3], X.val[b])

\* fltr[b] = Y: the entries of Y converted to the element type of X.
set_slice(X, b, Y) ==
    [X EXCEPT !.val[b] =
        [r \in 1..X.shape[2] |->
            [c \in 1..X.shape[3] |-> Cast(Y.val[r][c], X.dtype)]]]

sort_indices(X) == [X EXCEPT !.sorted = TRUE]

\* What localpooling_filter returns for a rank-2 array (lines 176-180,
\* 186-187): normalized_adjacency of the array with self-loops.
localpooling_filter_rank2(X, sym) ==
    normalized_adjacency(
        add(X, eye(X.shape[Len(X.shape)], X.dtype, issparse(X))), sym)

NumIdle == <<ta, tb, tres>>

\* lines 176-181: the copy, the identity, the dispatch on A.ndim
LpfEnter(sym) ==
    /\ pc = "idle"
    /\ LET c == copy(objs, A)
           X == objs[A]
       IN  /\ objs' = c.heap
           /\ fltr' = c.ref
           /\ I' = eye(X.shape[Len(X.shape)], X.dtype, issparse(X))
           /\ pc' = IF X.ndim = 3 THEN "loop" ELSE "whole"
    /\ i' = 1
    /\ op' = "localpooling_filter"
    /\ symmetric' = sym
    /\ UNCHANGED <<A, A0, k, A_tilde, res, NumIdle>>

\* lines 182-184: one turn of the loop over the slices
LpfSlice ==
    /\ pc = "loop"
    /\ A_tilde' = add(slice(objs[A], i), I)
    /\ objs' = [objs EXCEPT ![fltr] =
                    set_slice(objs[fltr], i,
                              normalized_adjacency(A_tilde', symmetric))]
    /\ i' = i + 1
    /\ pc' = IF i = objs[A].shape[1] THEN "tail" ELSE "loop"
    /\ UNCHANGED <<op, A, A0, symmetric, k, fltr, I, res, NumIdle>>

\* lines 186-187: the rank-2 branch rebinds fltr to a fresh result
LpfWhole ==
    /\ pc = "whole"
    /\ A_tilde' = add(objs[A], I)
    /\ objs' = Append(objs, normalized_adjacency(A_tilde', symmetric))
    /\ fltr' = Len(objs) + 1
    /\ pc' = "tail"
    /\ UNCHANGED <<op, A, A0, symmetric, k, I, i, res, NumIdle>>

\* lines 189-191: canonicalise a sparse result and return it
LpfReturn ==
    /\ pc = "tail"
    /\ objs' = IF issparse(objs[fltr])
               THEN [objs EXCEPT ![fltr] = sort_indices(objs[fltr])]
               ELSE objs
    /\ res' = [raised |-> FALSE, ref |-> fltr]
    /\ pc' = "done"
    /\ UNCHANGED <<op, A, A0, symmetric, k, fltr, I, i, A_tilde, NumIdle>>

\* a direct call of degree_power on the rank-2 array A
CallDegreePower(e) ==
    /\ pc = "idle"
    /\ objs[A].ndim = 2
    /\ k' = e
    /\ res' = degree_power(objs[A], e)
    /\ op' = "degree_power"
    /\ pc' = "done"
    /\ UNCHANGED <<objs, A, A0, symmetric, fltr, I, i, A_tilde, NumIdle>>

\* a direct call of normalized_adjacency on the rank-2 array A
CallNormalizedAdjacency(sym) ==
    /\ pc = "idle"
    /\ objs[A].ndim = 2
    /\ symmetric' = sym
    /\ res' = [raised |-> FALSE, val |-> normalized_adjacency(objs[A], sym)]
    /\ op' = "normalized_adjacency"
    /\ pc' = "done"
    /\ UNCHANGED <<objs, A, A0, k, fltr, I, i, A_tilde, NumIdle>>

Init ==
    /\ pc = "idle"
    /\ op = ""
    /\ \E X \in Inputs : objs = <<X>> /\ A0 = X
    /\ A = 1
    /\ symmetric = FALSE
    /\ k = Unset
    /\ fltr = 0
    /\ I = Unset
    /\ i = 0
    /\ A_tilde = Unset
    /\ res = Unset
    /\ ta = Unset
    /\ tb = Unset
    /\ tres = Unset

Next ==
    \/ \E sym \in BOOLEAN : LpfEnter(sym)
    \/ LpfSlice
    \/ LpfWhole
    \/ LpfReturn
    \/ \E e \in Exponents : CallDegreePower(e)
    \/ \E sym \in BOOLEAN : CallNormalizedAdjacency(sym)

Spec == Init /\ [][Next]_vars

(***************************************************************************)
(* Properties of the numpy family.                                         *)
(***************************************************************************)
LpfDone == pc = "done" /\ op = "localpooling_filter"

Returned == objs[res.ref]

RECURSIVE IntRowSum(_, _)
IntRowSum(row, m) == IF m = 0 THEN 0 ELSE IntRowSum(row, m - 1) + row[m].n

\* The degree vector of a rank-2 array of integer-valued entries.
Degrees(X) == [r \in 1..X.shape[1] |-> IntRowSum(X.val[r], X.shape[2])]

\* d ** (h/2), taken as 0 for a zero-degree node.
Factor(d, h) == IF d = 0 /\ h < 0 THEN Zero ELSE FloatPow(d, h)

Half == [n |-> 1, d |-> 2, r |-> 1]

SwapMatrix == <<<<Zero, One>>, <<One, Zero>>>>

\* v + I, entry by entry
PlusIdentity(v, n) ==
    [r \in 1..n |->
        [c \in 1..n |-> IF r = c THEN R(v[r][c].n + 1) ELSE v[r][c]]]

\* C3: for a rank-3 batch of any element type, slice b of
\* localpooling_filter(A, symmetric) equals localpooling_filter(A[b],
\* symmetric) computed on the rank-2 slice alone.
C3_BatchSlicesMatchSingle ==
    (LpfDone /\ A0.ndim = 3) =>
        \A b \in 1..A0.shape[1] :
            Returned.val[b] =
                localpooling_filter_rank2(slice(A0, b), symmetric).val

\* C4: localpooling_filter never mutates its argument: at every step the
\* caller's A holds the entries it held before the call, and fltr, once
\* bound, is another object than A.
C4_InputNeverMutated ==
    /\ objs[A] = A0
    /\ fltr # 0 => fltr # A

C4_Witness ==
    /\ LpfDone
    /\ A0.ndim = 3
    /\ A0.shape[1] >= 2
    /\ \A b \in 1..A0.shape[1] : Returned.val[b] # A0.val[b]

\* C5: degree_power(A, k) never raises and returns a diagonal matrix whose
\* r-th diagonal entry is (sum of row r)^k when that is finite and 0 when it
\* is infinite.
C5_DegreePowerDiagonal ==
    (pc = "done" /\ op = "degree_power") =>
        /\ ~res.raised
        /\ LET X == objs[A]
               d == Degrees(X)
               D == res.val.val
           IN  \A r, c \in 1..X.shape[1] :
                   D[r][c] = IF r = c THEN Factor(d[r], k.half) ELSE Zero

\* C6: normalized_adjacency(A, symmetric) has entry [r,c] equal to
\* d_r^(-1/2) * A[r,c] * d_c^(-1/2) when symmetric and d_r^(-1) * A[r,c]
\* otherwise, a factor of a zero-degree node being 0; for A = [[0,1],[1,0]]
\* and symmetric the result is A.
C6_NormalizedAdjacencyEntries ==
    (pc = "done" /\ op = "normalized_adjacency") =>
        LET X == objs[A]
            d == Degrees(X)
            out == res.val.val
        IN  /\ \A r, c \in 1..X.shape[1] :
                   out[r][c] =
                       IF symmetric
                       THEN RMul(RMul(Factor(d[r], -1), X.val[r][c]),
                                 Factor(d[c], -1))
                       ELSE RMul(Factor(d[r], -2), X.val[r][c])
            /\ (symmetric /\ X.val = SwapMatrix) => out = SwapMatrix

C6_Witness ==
    /\ pc = "done"
    /\ op = "normalized_adjacency"
    /\ symmetric
    /\ \E r \in 1..objs[A].shape[1] : Degrees(objs[A])[r] = 0
    /\ \E r, c \in 1..objs[A].shape[1] :
           res.val.val[r][c] \notin {Zero, objs[A].val[r][c]}

\* C7: for a rank-2 N x N array A, localpooling_filter(A, symmetric) equals
\* normalized_adjacency(A + I, symmetric) and has the rank of A; for
\* A = [[0,1],[1,0]] and symmetric it is [[1/2,1/2],[1/2,1/2]].
C7_RankTwoFilter ==
    (LpfDone /\ A0.ndim = 2) =>
        LET n == A0.shape[1]
            AI == Mat(A0.dtype, A0.sparse, n, n, PlusIdentity(A0.val, n))
        IN  /\ Returned.val = normalized_adjacency(AI, symmetric).val
            /\ Returned.ndim = A0.ndim
            /\ Returned.shape = A0.shape
            /\ (symmetric /\ A0.val = SwapMatrix) =>
                   Returned.val = <<<<Half, Half>>, <<Half, Half>>>>

C7_Witness ==
    /\ LpfDone
    /\ A0.ndim = 2
    /\ symmetric
    /\ A0.val = SwapMatrix
    /\ Returned.val = <<<<Half, Half>>, <<Half, Half>>>>

\* C10: for a rank-2 array with nonnegative entries, every row sum of the
\* array with self-loops is at least 1, no degree power is infinite (the
\* clamp is not applied), and with symmetric = false every row of the filter
\* sums to 1.
C10_RowStochastic ==
    (LpfDone /\ A0.ndim = 2) =>
        LET n == A0.shape[1]
            e == Exponent(IF symmetric THEN -1 ELSE -2, FALSE)
        IN  /\ \A r \in 1..n : Degrees(A_tilde)[r] >= 1
            /\ \A r \in 1..n : isfinite(raw_degrees(A_tilde, e).val[r])
            /\ ~symmetric => \A r \in 1..n : SumTo(Returned.val[r], n) = One

C10_Witness ==
    /\ LpfDone
    /\ A0.ndim = 2
    /\ ~symmetric
    /\ A0.shape[1] >= 2
    /\ \E r \in 1..A0.shape[1] : Degrees(A0)[r] = 0
    /\ \E r \in 1..A0.shape[1] : Degrees(A0)[r] >= 2

(***************************************************************************)
(* The tensor family.                                                      *)
(* A tensor is [shape, data, sparse]: data holds the entries in row-major  *)
(* order.  A call returns [raised, val, trace] or [raised, exc, trace];    *)
(* trace lists the routines and engine primitives entered, in order.       *)
(***************************************************************************)
SINGLE == 1
MIXED == 2
iMIXED == 3
BATCH == 4
UNKNOWN == -1

Tensor(shape, data, sp) == [shape |-> shape, data |-> data, sparse |-> sp]

\* An optional argument: None, or a given value.
None == <<>>
Some(x) == <<x>>

Ok(v, tr) == [raised |-> FALSE, val |-> v, trace |-> tr]
Raise(exc, tr) == [raised |-> TRUE, exc |-> exc, trace |-> tr]

\* K.is_sparse
is_sparse(a) == a.sparse

\* K.ndim
ndim(a) == Len(a.shape)

\* K.int_shape
int_shape(a) == a.shape

\* The product of shape[from..Len(shape)]
RECURSIVE Prod(_, _)
Prod(shape, from) ==
    IF from > Len(shape) THEN 1 ELSE shape[from] * Prod(shape, from + 1)

Size(shape) == Prod(shape, 1)

\* Row-major position <-> multi-index (both 0-based)
Unravel(p, shape) ==
    [j \in 1..Len(shape) |-> (p \div Prod(shape, j + 1)) % shape[j]]

RECURSIVE RavelFrom(_, _, _)
RavelFrom(idx, shape, j) ==
    IF j > Len(shape) THEN 0
    ELSE idx[j] * Prod(shape, j + 1) + RavelFrom(idx, shape, j + 1)

Ravel(idx, shape) == RavelFrom(idx, shape, 1)

IsPerm(perm, r) ==
    /\ Len(perm) = r
    /\ \A m \in 0..(r - 1) : \E j \in 1..r : perm[j] = m

\* tf.transpose / tf.sparse.transpose: axis j of the result is axis perm[j]
\* of the operand.
engine_transpose(a, perm) ==
    LET r == ndim(a)
        shp == [j \in 1..r |-> a.shape[perm[j] + 1]]
        src(q) == LET o == Unravel(q - 1, shp)
                  IN  [m \in 1..r |-> o[CHOOSE j \in 1..r : perm[j] + 1 = m]]
    IN  Tensor(shp,
               [q \in 1..Size(shp) |-> a.data[1 + Ravel(src(q), a.shape)]],
               a.sparse)

transpose(a, perm) ==
    LET transpose_op == IF is_sparse(a) THEN "tf.sparse.transpose"
                                        ELSE "tf.transpose"
        pm == IF perm = None THEN <<1, 0>> ELSE perm[1]
    IN  IF IsPerm(pm, ndim(a))
        THEN Ok(engine_transpose(a, pm), <<transpose_op>>)
        ELSE Raise("InvalidArgumentError", <<transpose_op>>)

\* tf.reshape / tf.sparse.reshape: the entries keep their row-major order;
\* one extent may be -1 and is then inferred.
reshape(a, new_shape) ==
    LET reshape_op == IF is_sparse(a) THEN "tf.sparse.reshape"
                                      ELSE "tf.reshape"
        shape == new_shape[1]
        n == Size(a.shape)
        holes == {j \in 1..Len(shape) : shape[j] = -1}
        known == Prod([j \in 1..Len(shape) |->
                          IF shape[j] = -1 THEN 1 ELSE shape[j]], 1)
    IN  IF new_shape = None THEN Raise("ValueError", <<reshape_op>>)
        ELSE IF Cardinality(holes) > 1 \/ known = 0
             THEN Raise("InvalidArgumentError", <<reshape_op>>)
        ELSE IF holes = {}
             THEN (IF known = n
                   THEN Ok(Tensor(shape, a.data, a.sparse), <<reshape_op>>)
                   ELSE Raise("InvalidArgumentError", <<reshape_op>>))
        ELSE IF n % known = 0
             THEN Ok(Tensor([j \in 1..Len(shape) |->
                                IF shape[j] = -1 THEN n \div known
                                ELSE shape[j]],
                            a.data, a.sparse), <<reshape_op>>)
             ELSE Raise("InvalidArgumentError", <<reshape_op>>)

\* (faulty variant of autodetect_mode, for sensitivity runs: the two mixed codes are exchanged)
autodetect_mode_swapped(a, b) ==
    LET a_dim == ndim(a)
        b_dim == ndim(b)
    IN  IF b_dim = 2
        THEN (IF a_dim = 2 THEN SINGLE
              ELSE IF a_dim = 3 THEN MIXED ELSE UNKNOWN)
        ELSE IF b_dim = 3
        THEN (IF a_dim = 2 THEN iMIXED
              ELSE IF a_dim = 3 THEN BATCH ELSE UNKNOWN)
        ELSE UNKNOWN

autodetect_mode(a, b) ==
    LET a_dim == ndim(a)
        b_dim == ndim(b)
    IN  IF b_dim = 2
        THEN (IF a_dim = 2 THEN SINGLE
              ELSE IF a_dim = 3 THEN iMIXED ELSE UNKNOWN)
        ELSE IF b_dim = 3
        THEN (IF a_dim = 2 THEN MIXED
              ELSE IF a_dim = 3 THEN BATCH ELSE UNKNOWN)
        ELSE UNKNOWN

RECURSIVE ISum(_, _)
ISum(f, m) == IF m = 0 THEN 0 ELSE ISum(f, m - 1) + f[m]

\* Entry (r, c) of matrix n of a rank-2 or rank-3 tensor (0-based), the
\* innermost two axes swapped when tr.
El(t, n, r, c, tr) ==
    LET rk == ndim(t)
        rows == t.shape[rk - 1]
        cols == t.shape[rk]
    IN  t.data[n * rows * cols + (IF tr THEN c * cols + r ELSE r * cols + c) + 1]

\* tfsp.matmul on operands of one rank, 2 or 3.  The engine is taken to
\* reject operands outside the documented domain of dot (ranks that differ
\* or are not 2 or 3, inner or batch extents that do not agree).
matmul(a, b, transpose_a, transpose_b) ==
    LET rk == ndim(a)
        ok == /\ ndim(b) = rk
              /\ rk \in {2, 3}
        m == IF transpose_a THEN a.shape[rk] ELSE a.shape[rk - 1]
        inner == IF transpose_a THEN a.shape[rk - 1] ELSE a.shape[rk]
        innerb == IF transpose_b THEN b.shape[rk] ELSE b.shape[rk - 1]
        q == IF transpose_b THEN b.shape[rk - 1] ELSE b.shape[rk]
        nb == IF rk = 3 THEN a.shape[1] ELSE 1
        shp == IF rk = 3 THEN <<nb, m, q>> ELSE <<m, q>>
    IN  IF ~ok THEN Raise("InvalidArgumentError", <<"matmul">>)
        ELSE IF inner # innerb \/ (rk = 3 /\ b.shape[1] # nb)
        THEN Raise("InvalidArgumentError", <<"matmul">>)
        ELSE Ok(Tensor(shp,
                  [x \in 1..(nb * m * q) |->
                     LET n == (x - 1) \div (m * q)
                         r == ((x - 1) \div q) % m
                         c == (x - 1) % q
                     IN  ISum([t \in 1..inner |->
                                  El(a, n, r, t - 1, transpose_a)
                                  * El(b, n, t - 1, c, transpose_b)], inner)],
                  a.sparse /\ b.sparse), <<"matmul">>)

\* lines 101-111: sparse operands go through CSRSparseMatrix, and a sparse
\* product is handed back as a SparseTensor.
dot(a, b, transpose_a, transpose_b) ==
    LET out == matmul(a, b, transpose_a, transpose_b)
    IN  [out EXCEPT !.trace = <<"dot">> \o out.trace]

\* (faulty variant of mixed_mode_dot, for sensitivity runs: the operand is flattened without the first
\* transpose)
mixed_mode_dot_no_transpose(a, b) ==
    IF Len(int_shape(b)) # 3 THEN Raise("ValueError", <<"int_shape">>)
    ELSE LET sh == int_shape(b)
             B_T == reshape(b, Some(<<sh[2], -1>>))
             o1 == dot(a, B_T.val, FALSE, FALSE)
             o2 == reshape(o1.val, Some(<<sh[2], sh[3], -1>>))
             o3 == transpose(o2.val, Some(<<2, 0, 1>>))
         IN  IF B_T.raised THEN B_T
             ELSE IF o1.raised THEN o1
             ELSE IF o2.raised THEN o2
             ELSE o3

mixed_mode_dot(a, b) ==
    IF Len(int_shape(b)) # 3
    THEN \* the unpacking  s_0_, s_1_, s_2_ = K.int_shape(b)  fails
         Raise("ValueError", <<"int_shape">>)
    ELSE LET s_0_ == int_shape(b)[1]
             s_1_ == int_shape(b)[2]
             s_2_ == int_shape(b)[3]
             t1 == transpose(b, Some(<<1, 2, 0>>))
             t2 == reshape(t1.val, Some(<<s_1_, -1>>))
             t3 == dot(a, t2.val, FALSE, FALSE)
             t4 == reshape(t3.val, Some(<<s_1_, s_2_, -1>>))
             t5 == transpose(t4.val, Some(<<2, 0, 1>>))
             tr1 == <<"int_shape">> \o t1.trace
             tr2 == tr1 \o t2.trace
             tr3 == tr2 \o t3.trace
             tr4 == tr3 \o t4.trace
             tr5 == tr4 \o t5.trace
         IN  IF t1.raised THEN [t1 EXCEPT !.trace = tr1]
             ELSE IF t2.raised THEN [t2 EXCEPT !.trace = tr2]
             ELSE IF t3.raised THEN [t3 EXCEPT !.trace = tr3]
             ELSE IF t4.raised THEN [t4 EXCEPT !.trace = tr4]
             ELSE [t5 EXCEPT !.trace = tr5]

\* (faulty variant of filter_dot, for sensitivity runs: only SINGLE goes to dot)
filter_dot_single_only(f, features) ==
    LET mode == autodetect_mode(f, features)
    IN  IF mode = SINGLE
        THEN LET out == dot(f, features, FALSE, FALSE)
             IN  [out EXCEPT !.trace = <<"autodetect_mode">> \o out.trace]
        ELSE LET out == mixed_mode_dot(f, features)
             IN  [out EXCEPT !.trace =
                     <<"autodetect_mode", "mixed_mode_dot">> \o out.trace]

\* (faulty variant of filter_dot, for sensitivity runs: only MIXED goes to mixed_mode_dot)
filter_dot_mixed_only(f, features) ==
    LET mode == autodetect_mode(f, features)
    IN  IF mode # MIXED
        THEN LET out == dot(f, features, FALSE, FALSE)
             IN  [out EXCEPT !.trace = <<"autodetect_mode">> \o out.trace]
        ELSE LET out == mixed_mode_dot(f, features)
             IN  [out EXCEPT !.trace =
                     <<"autodetect_mode", "mixed_mode_dot">> \o out.trace]

filter_dot(f, features) ==
    LET mode == autodetect_mode(f, features)
    IN  IF mode = SINGLE \/ mode = BATCH
        THEN LET out == dot(f, features, FALSE, FALSE)
             IN  [out EXCEPT !.trace = <<"autodetect_mode">> \o out.trace]
        ELSE LET out == mixed_mode_dot(f, features)
             IN  [out EXCEPT !.trace =
                     <<"autodetect_mode", "mixed_mode_dot">> \o out.trace]

(***************************************************************************)
(* Inputs and calls of the tensor family.                                  *)
(***************************************************************************)
\* Entry at row-major position p (0-based) of the data of a seed.
TData(seed, p) == (((p + 1) * (seed + 1) + seed * p * p) % 7) - 3

\* The shape of rank r with innermost extents m x n and batch extent nb.
ShapeOf(r, nb, m, n) ==
    IF r = 1 THEN <<n>>
    ELSE IF r = 2 THEN <<m, n>>
    ELSE [j \in 1..r |-> IF j = r THEN n
                         ELSE IF j = r - 1 THEN m
                         ELSE IF j = r - 2 THEN nb ELSE 1]

SeedTensor(shape, seed, sp) ==
    Tensor(shape, [q \in 1..Size(shape) |-> TData(seed, q - 1)], sp)

\* The filter whose innermost matrices are the identity (1 where the two
\* innermost indices agree).
EyeTensor(shape, sp) ==
    Tensor(shape,
           [q \in 1..Size(shape) |->
               LET o == Unravel(q - 1, shape)
               IN  IF Len(shape) >= 2 /\ o[Len(shape)] = o[Len(shape) - 1]
                   THEN 1 ELSE 0],
           sp)

\* The left operand is m x n with n the row count of the right operand, so
\* that the product is defined; m = n makes it a square filter.
OperandPairs ==
    {<<IF sa = 0 THEN EyeTensor(ShapeOf(ra, nb, m, n), spa)
                 ELSE SeedTensor(ShapeOf(ra, nb, m, n), sa, spa),
       SeedTensor(ShapeOf(rb, nb, n, f), sb, spb)>> :
        ra \in 1..MaxRank, rb \in 1..MaxRank, nb \in 1..MaxDim,
        m \in 1..MaxDim, n \in 1..MaxDim, f \in 1..MaxDim,
        sa \in 0..MaxTSeed, sb \in 0..MaxTSeed,
        spa \in BOOLEAN, spb \in BOOLEAN}

TenIdle == <<objs, A, A0, symmetric, k, fltr, I, i, A_tilde, res>>

CallAutodetectMode ==
    /\ pc = "idle"
    /\ op' = "autodetect_mode"
    /\ tres' = Ok(autodetect_mode(ta, tb), <<"autodetect_mode">>)
    /\ pc' = "done"
    /\ UNCHANGED <<ta, tb, TenIdle>>

CallFilterDot ==
    /\ pc = "idle"
    /\ op' = "filter_dot"
    /\ tres' = filter_dot(ta, tb)
    /\ pc' = "done"
    /\ UNCHANGED <<ta, tb, TenIdle>>

CallDot(transpose_a, transpose_b) ==
    /\ pc = "idle"
    /\ op' = "dot"
    /\ tres' = dot(ta, tb, transpose_a, transpose_b)
    /\ pc' = "done"
    /\ UNCHANGED <<ta, tb, TenIdle>>

CallMixedModeDot ==
    /\ pc = "idle"
    /\ op' = "mixed_mode_dot"
    /\ tres' = mixed_mode_dot(ta, tb)
    /\ pc' = "done"
    /\ UNCHANGED <<ta, tb, TenIdle>>

InitDot ==
    /\ pc = "idle"
    /\ op = ""
    /\ \E pr \in OperandPairs : ta = pr[1] /\ tb = pr[2]
    /\ tres = Unset
    /\ objs = <<>>
    /\ A = 0
    /\ A0 = Unset
    /\ symmetric = FALSE
    /\ k = Unset
    /\ fltr = 0
    /\ I = Unset
    /\ i = 0
    /\ A_tilde = Unset
    /\ res = Unset

NextDot ==
    \/ CallAutodetectMode
    \/ CallFilterDot
    \/ \E x, y \in BOOLEAN : CallDot(x, y)
    \/ CallMixedModeDot

SpecDot == InitDot /\ [][NextDot]_vars

(***************************************************************************)
(* Properties of the tensor family.                                        *)
(***************************************************************************)
Called(name) == pc = "done" /\ op = name

\* The decision table of the modes, by the ranks of the operands.
ModeTable(x, y) ==
    CASE x = 2 /\ y = 2 -> 1
      [] x = 2 /\ y = 3 -> 2
      [] x = 3 /\ y = 2 -> 3
      [] x = 3 /\ y = 3 -> 4
      [] OTHER -> -1

\* Two outcomes agree: both raise the same error, or both return one value.
SameOutcome(x, y) ==
    /\ x.raised = y.raised
    /\ x.raised => x.exc = y.exc
    /\ ~x.raised => x.val = y.val

\* C1: autodetect_mode(a, b) never raises and returns the code the table
\* gives for (rank(a), rank(b)), whatever the shapes and entries: 1 for (2,2),
\* 2 for (2,3), 3 for (3,2), 4 for (3,3) and -1 for every other pair.
C1_AutodetectModeTable ==
    Called("autodetect_mode") =>
        /\ ~tres.raised
        /\ tres.val \in {SINGLE, MIXED, iMIXED, BATCH, UNKNOWN}
        /\ tres.val = ModeTable(Len(ta.shape), Len(tb.shape))

C1_Witness ==
    /\ Called("autodetect_mode")
    /\ Len(ta.shape) = 4
    /\ Len(tb.shape) = 3
    /\ tres.val = -1

\* C2: for a square s1 x s1 filter a and b of shape (s0, s1, s2),
\* mixed_mode_dot(a, b) has shape (s0, s1, s2) and entry [n,i,c] equal to the
\* sum over j of a[i,j] * b[n,j,c]; when a is the identity the result is b.
C2_MixedModeDotEntries ==
    (/\ Called("mixed_mode_dot")
     /\ Len(ta.shape) = 2
     /\ Len(tb.shape) = 3
     /\ ta.shape = <<tb.shape[2], tb.shape[2]>>) =>
        LET s0 == tb.shape[1]
            s1 == tb.shape[2]
            s2 == tb.shape[3]
        IN  /\ ~tres.raised
            /\ tres.val.shape = <<s0, s1, s2>>
            /\ \A n \in 0..(s0 - 1), r \in 0..(s1 - 1), c \in 0..(s2 - 1) :
                   tres.val.data[n * s1 * s2 + r * s2 + c + 1] =
                       ISum([j \in 1..s1 |->
                                ta.data[r * s1 + j]
                                * tb.data[n * s1 * s2 + (j - 1) * s2 + c + 1]],
                            s1)
            /\ (\A r, c \in 0..(s1 - 1) :
                    ta.data[r * s1 + c + 1] = IF r = c THEN 1 ELSE 0)
                   => tres.val.data = tb.data

C2_Witness ==
    /\ Called("mixed_mode_dot")
    /\ ta.shape = <<2, 2>>
    /\ tb.shape = <<2, 2, 2>>
    /\ ~tres.raised
    /\ tres.val.shape = <<2, 2, 2>>
    /\ tres.val.data # tb.data

\* C8: filter_dot(fltr, features) returns what dot(fltr, features) returns
\* when the mode is SINGLE or BATCH, and what mixed_mode_dot(fltr, features)
\* returns for every other mode.
C8_FilterDotRouting ==
    Called("filter_dot") =>
        LET m == ModeTable(Len(ta.shape), Len(tb.shape))
        IN  IF m \in {1, 4}
            THEN /\ SameOutcome(tres, dot(ta, tb, FALSE, FALSE))
                 /\ tres.trace[2] = "dot"
            ELSE /\ SameOutcome(tres, mixed_mode_dot(ta, tb))
                 /\ tres.trace[2] = "mixed_mode_dot"

C8_Witness ==
    /\ Called("filter_dot")
    /\ Len(ta.shape) = 3
    /\ tb.shape = <<2, 2, 2>>
    /\ ~tres.raised
    /\ tres.trace[2] = "dot"
    /\ tres.val.data # tb.data

\* C9: for operands whose features have a rank other than 3 and whose mode
\* is not SINGLE, filter_dot returns no product: it enters mixed_mode_dot and
\* fails unpacking the shape of the right operand, before any transpose,
\* reshape or multiply.
C9_NonRank3FeaturesFail ==
    (/\ Called("filter_dot")
     /\ Len(tb.shape) # 3
     /\ ModeTable(Len(ta.shape), Len(tb.shape)) # 1) =>
        /\ tres.raised
        /\ tres.exc = "ValueError"
        /\ tres.trace = <<"autodetect_mode", "mixed_mode_dot", "int_shape">>

C9_Witness ==
    /\ Called("filter_dot")
    /\ Len(ta.shape) = 3
    /\ Len(tb.shape) = 2
    /\ tres.raised
    /\ tres.trace = <<"autodetect_mode", "mixed_mode_dot", "int_shape">>

====
